---- MODULE Spec2Model ----
(***************************************************************************)
(* A model of github_repo_scraper.py: the historical merge store           *)
(* (save_to_json, save_to_csv, load_historical_data), the run of main that *)
(* feeds it, and the page loop of get_all_repos / get_commits.             *)
(*                                                                         *)
(* Three specifications share the module:                                  *)
(*   SpecSave  calls of save_to_json / save_to_csv on arbitrary file       *)
(*             contents (absent, damaged, foreign, written earlier);       *)
(*   Spec      runs of main: collect, save_to_json, save_to_csv, with an   *)
(*             interruption possible between the two writes;               *)
(*   SpecPage  the page loop against a server holding a list of items.     *)
(***************************************************************************)
EXTENDS Integers, Sequences, FiniteSets, TLC

VARIABLES
    jsonFile,   \* the file github_repo_data.json
    csvFile,    \* the file github_repo_data.csv
    now,        \* the clock read by datetime.now()
    call,       \* SpecSave: the last call made, its arguments and the files before it
    pc,         \* Spec: where main is; SpecSave: the backend the caller uses
    data,       \* Spec: main's local variable data
    runs,       \* Spec: the runs so far that reached a write, per file and date
    pg,         \* SpecPage: the page loop's locals and the server it talks to
    req,        \* SpecRequest: one call of _make_request and its attempts
    tfd,        \* SpecTraffic: one call of get_traffic_for_date
    cst,        \* SpecCommits: one call of get_commit_stats
    rst,        \* SpecStats: one call of get_repo_stats
    scr         \* SpecScrape: one call of scrape_all_repos

vars == <<jsonFile, csvFile, now, call, pc, data, runs, pg, req, tfd, cst, rst, scr>>

(***************************************************************************)
(* Bounds of the model.                                                    *)
(***************************************************************************)
MaxCalls == 3       \* SpecSave: calls and outside changes made to the files
MaxRuns == 3        \* Spec: runs of main
MaxTotal == 230     \* SpecPage: items the server holds

(***************************************************************************)
(* The values snapshots are made of.                                       *)
(***************************************************************************)
Dates == {"2024-01-01", "2024-01-02"}

Alpha ==
    [name |-> "alpha", full_name |-> "Sesquii/alpha", owner |-> "Sesquii",
     url |-> "https://github.com/Sesquii/alpha"]

Beta ==
    [name |-> "beta", full_name |-> "Sesquii/beta", owner |-> "Sesquii",
     url |-> "https://github.com/Sesquii/beta"]

Repos == {Alpha, Beta}

\* None is the empty sequence, a present value v is <<v>>.
None == <<>>

\* What the API reported for one repository on one day: every count zero and
\* the optional fields null, or every count different from the others.
Quiet ==
    [private |-> FALSE, description |-> None, language |-> None,
     stargazers_count |-> 0, forks_count |-> 0, watchers_count |-> 0,
     open_issues_count |-> 0,
     views |-> 0, views_uniques |-> 0, clones |-> 0, clones_uniques |-> 0,
     commits |-> 0, additions |-> 0, deletions |-> 0]

Busy ==
    [private |-> TRUE, description |-> <<"traffic scraper">>, language |-> <<"Python">>,
     stargazers_count |-> 12, forks_count |-> 3, watchers_count |-> 11,
     open_issues_count |-> 1,
     views |-> 105, views_uniques |-> 40, clones |-> 7, clones_uniques |-> 5,
     commits |-> 2, additions |-> 8, deletions |-> 20]

Profiles == {Quiet, Busy}

\* The stats dictionary get_repo_stats compiles.
Stats(target_date, repo, p, stamp) ==
    [date |-> target_date,
     repository |->
        [name |-> repo.name, full_name |-> repo.full_name, owner |-> repo.owner,
         private |-> p.private, description |-> p.description, url |-> repo.url,
         language |-> p.language, stargazers_count |-> p.stargazers_count,
         forks_count |-> p.forks_count, watchers_count |-> p.watchers_count,
         open_issues_count |-> p.open_issues_count],
     traffic |->
        [views |-> p.views, views_uniques |-> p.views_uniques,
         clones |-> p.clones, clones_uniques |-> p.clones_uniques],
     commits |->
        [commits |-> p.commits, additions |-> p.additions, deletions |-> p.deletions,
         net_change |-> p.additions - p.deletions],
     scraped_at |-> stamp]

\* The lists of repositories a list of snapshots can be about: each
\* repository at most once, in either order.
RepoLists ==
    { <<>> } \cup { <<r>> : r \in Repos }
        \cup { q \in Repos \X Repos : q[1] # q[2] }

\* The repositories one run of scrape_all_repos returns snapshots for: those
\* of the account, in the order the API lists them, less the skipped ones.
ScrapedRepoLists == { <<>>, <<Alpha>>, <<Beta>>, <<Alpha, Beta>> }

\* The lists of snapshots over the given lists of repositories: one date and
\* one capture time for all.
SnapshotLists(repoLists, target_date, stamp) ==
    UNION { { [i \in 1..Len(rs) |-> Stats(target_date, rs[i], ps[i], stamp)] :
                ps \in [1..Len(rs) -> Profiles] } : rs \in repoLists }

(***************************************************************************)
(* The JSON file.  A file is absent or holds a text; the text parses or    *)
(* does not (json.load raises JSONDecodeError); doc is the document the    *)
(* text records: an object, with or without the key historical_data, or    *)
(* an array.  json.dump followed by json.load returns the strings, ints,   *)
(* booleans, nulls, lists and string-keyed objects of a snapshot as they   *)
(* were, so a document is kept as its value.  last_updated 0 stands for    *)
(* the key being absent.                                                   *)
(***************************************************************************)
EmptyStore ==
    [shape |-> "object", has_hd |-> TRUE, historical_data |-> <<>>,
     last_updated |-> 0, items |-> <<>>]

NoDocument ==
    [shape |-> "object", has_hd |-> FALSE, historical_data |-> <<>>,
     last_updated |-> 0, items |-> <<>>]

JsonAbsent == [exists |-> FALSE, parsable |-> TRUE, doc |-> NoDocument]

\* open(filename, "w") and json.dump: the file holds the dumped document.
WriteJson(document) == [exists |-> TRUE, parsable |-> TRUE, doc |-> document]

\* load_historical_data: what json.load returns, whatever its shape, and
\* {"historical_data": []} when the file is absent or does not parse.
load_historical_data(f) ==
    IF f.exists
    THEN IF f.parsable THEN f.doc ELSE EmptyStore
    ELSE EmptyStore

\* historical.get("historical_data", [])
GetHistoricalData(historical) ==
    IF historical.has_hd THEN historical.historical_data ELSE <<>>

\* A faulty variant: no old entry removed.
KeepAll(entries, target_date) == entries

\* A faulty variant: the comparison of line 298 turned round.
KeepDate(entries, target_date) ==
    SelectSeq(entries, LAMBDA entry : entry.date = target_date)

\* [entry for entry in ... if entry.get("date") != target_date]
RemoveDate(entries, target_date) ==
    SelectSeq(entries, LAMBDA entry : entry.date # target_date)

\* A faulty variant: the new entries put in front of the kept ones.
ExtendFront(entries, new) == new \o entries

\* historical["historical_data"].extend(data)
Extend(entries, new) == entries \o new

\* save_to_json.  Every snapshot of the model has the key "date", so the
\* test of line 287 is whether data is empty.  The result is the file after
\* the call and whether the call raised: historical.get of line 291 raises
\* AttributeError when the loaded document is an array, before any write.
save_to_json(d, f, clock) ==
    LET historical == load_historical_data(f) IN
    IF Len(d) > 0
    THEN IF historical.shape # "object"
         THEN [raised |-> TRUE, file |-> f]
         ELSE LET target_date == d[1].date
                  existing == GetHistoricalData(historical)
                  existing_dates == { existing[i].date : i \in DOMAIN existing }
                  removed ==
                      IF target_date \in existing_dates
                      THEN [historical EXCEPT
                              !.has_hd = TRUE,
                              !.historical_data = RemoveDate(existing, target_date)]
                      ELSE historical
                  present ==
                      IF removed.has_hd
                      THEN removed
                      ELSE [removed EXCEPT !.has_hd = TRUE, !.historical_data = <<>>]
                  merged ==
                      [present EXCEPT
                          !.historical_data = Extend(@, d),
                          !.last_updated = clock]
              IN [raised |-> FALSE, file |-> WriteJson(merged)]
    ELSE [raised |-> FALSE,
          file |-> WriteJson([shape |-> "array", has_hd |-> FALSE,
                              historical_data |-> <<>>, last_updated |-> 0,
                              items |-> d])]

(***************************************************************************)
(* The CSV file.  Its rows are text: csv.DictWriter writes str(value) of   *)
(* every value and "" for None, csv.DictReader returns every cell as a     *)
(* string.  A decimal numeral is the sequence of its characters; a cell    *)
(* that is copied and compared but never taken apart (a date, a name, a    *)
(* language, True/False) is a string; scraped_at, a string already in the  *)
(* snapshot, is its capture time.  readable is whether reading the file    *)
(* back succeeds (an undecodable byte makes list(reader) raise).           *)
(***************************************************************************)
CsvAbsent == [exists |-> FALSE, readable |-> TRUE, rows |-> <<>>]

DigitChars == <<"0", "1", "2", "3", "4", "5", "6", "7", "8", "9">>

RECURSIVE StrNat(_)
StrNat(n) ==
    IF n < 10
    THEN <<DigitChars[n + 1]>>
    ELSE StrNat(n \div 10) \o <<DigitChars[(n % 10) + 1]>>

\* str(n) of an int.
StrInt(n) == IF n < 0 THEN <<"-">> \o StrNat(-n) ELSE StrNat(n)

\* str(b) of a bool.
StrBool(b) == IF b THEN "True" ELSE "False"

\* The cell written for an optional string: "" for None.
StrOptional(v) == IF v = None THEN "" ELSE v[1]

\* A faulty variant: the clones taken from the views.
RowViewsForClones(repo_data) ==
    LET repo == repo_data.repository
        traffic == repo_data.traffic
        commits == repo_data.commits
    IN [date |-> repo_data.date,
        repository |-> repo.full_name,
        private |-> StrBool(repo.private),
        language |-> StrOptional(repo.language),
        stars |-> StrInt(repo.stargazers_count),
        forks |-> StrInt(repo.forks_count),
        watchers |-> StrInt(repo.watchers_count),
        open_issues |-> StrInt(repo.open_issues_count),
        views |-> StrInt(traffic.views),
        views_uniques |-> StrInt(traffic.views_uniques),
        clones |-> StrInt(traffic.views),
        clones_uniques |-> StrInt(traffic.clones_uniques),
        commits |-> StrInt(commits.commits),
        additions |-> StrInt(commits.additions),
        deletions |-> StrInt(commits.deletions),
        net_change |-> StrInt(commits.net_change),
        scraped_at |-> repo_data.scraped_at]

\* The row built for one snapshot (lines 353-371), as the writer writes it.
Row(repo_data) ==
    LET repo == repo_data.repository
        traffic == repo_data.traffic
        commits == repo_data.commits
    IN [date |-> repo_data.date,
        repository |-> repo.full_name,
        private |-> StrBool(repo.private),
        language |-> StrOptional(repo.language),
        stars |-> StrInt(repo.stargazers_count),
        forks |-> StrInt(repo.forks_count),
        watchers |-> StrInt(repo.watchers_count),
        open_issues |-> StrInt(repo.open_issues_count),
        views |-> StrInt(traffic.views),
        views_uniques |-> StrInt(traffic.views_uniques),
        clones |-> StrInt(traffic.clones),
        clones_uniques |-> StrInt(traffic.clones_uniques),
        commits |-> StrInt(commits.commits),
        additions |-> StrInt(commits.additions),
        deletions |-> StrInt(commits.deletions),
        net_change |-> StrInt(commits.net_change),
        scraped_at |-> repo_data.scraped_at]

\* Lines 328-337: the rows read back, none when the file is absent or
\* reading it raises.
ReadCsv(f) == IF f.exists /\ f.readable THEN f.rows ELSE <<>>

\* A faulty variant: rows of the target date left in place.
KeepAllRows(rows, target_date) == rows

\* [row for row in existing_rows if row.get("date") != target_date]
RemoveDateRows(rows, target_date) ==
    SelectSeq(rows, LAMBDA row : row.date # target_date)

\* save_to_csv: the file after the call.  The date of a snapshot is never
\* the empty string, so the test of line 343 holds; all_rows holds at least
\* the new rows, so the test of line 377 holds.
save_to_csv(d, f) ==
    IF Len(d) = 0
    THEN f
    ELSE LET target_date == d[1].date
             existing_rows == RemoveDateRows(ReadCsv(f), target_date)
             new_rows == [i \in 1..Len(d) |-> Row(d[i])]
             all_rows == existing_rows \o new_rows
         IN [exists |-> TRUE, readable |-> TRUE, rows |-> all_rows]

(***************************************************************************)
(* The calls that are not running in a specification.                      *)
(***************************************************************************)
NoRequest == [state |-> "idle"]

NoTraffic == [state |-> "idle"]

NoCommitStats == [state |-> "idle"]

NoRepoStats == [state |-> "idle"]

NoScrape == [pc |-> "idle"]

NoRequestRunning == req = NoRequest

NoStatsRunning == tfd = NoTraffic /\ cst = NoCommitStats /\ rst = NoRepoStats

NoScrapeRunning == scr = NoScrape

(***************************************************************************)
(* SpecSave: a caller of one backend.  It calls save_to_json (or           *)
(* save_to_csv) with a list of snapshots it has just collected or with the *)
(* list of its previous call once more; between calls the file can be      *)
(* changed from outside.  call records the last step: the operation, its   *)
(* argument, whether it raised, whether the call before it was the same    *)
(* call, and the two files as they were before it.                         *)
(***************************************************************************)
NoCall ==
    [op |-> "none", data |-> <<>>, raised |-> FALSE, again |-> FALSE,
     json |-> JsonAbsent, csv |-> CsvAbsent]

\* No page loop is running.
NoPage ==
    [fn |-> "none", total |-> 0, page |-> 1, items |-> <<>>, log |-> <<>>,
     done |-> TRUE]

InitSave ==
    /\ jsonFile = JsonAbsent
    /\ csvFile = CsvAbsent
    /\ now = 1
    /\ call = NoCall
    /\ pc \in {"json", "csv"}
    /\ data = <<>>
    /\ runs = <<>>
    /\ pg = NoPage
    /\ NoRequestRunning /\ NoStatsRunning /\ NoScrapeRunning

\* The lists a caller can pass: a list collected now, or its last one again.
Arguments ==
    { <<>> } \cup UNION { SnapshotLists(RepoLists, target_date, now) : target_date \in Dates }
        \cup { call.data }

Called(op, d, raised) ==
    [op |-> op, data |-> d, raised |-> raised,
     again |-> call.op = op /\ call.data = d /\ ~call.raised,
     json |-> jsonFile, csv |-> csvFile]

CallSaveJson ==
    /\ pc = "json"
    /\ now <= MaxCalls
    /\ \E d \in Arguments :
         LET result == save_to_json(d, jsonFile, now) IN
         /\ jsonFile' = result.file
         /\ call' = Called("save_to_json", d, result.raised)
    /\ now' = now + 1
    /\ UNCHANGED <<csvFile, pc, data, runs, pg, req, tfd, cst, rst, scr>>

CallSaveCsv ==
    /\ pc = "csv"
    /\ now <= MaxCalls
    /\ \E d \in Arguments :
         /\ csvFile' = save_to_csv(d, csvFile)
         /\ call' = Called("save_to_csv", d, FALSE)
    /\ now' = now + 1
    /\ UNCHANGED <<jsonFile, pc, data, runs, pg, req, tfd, cst, rst, scr>>

\* The JSON text is damaged from outside: what it records stays in the
\* file, and json.load raises JSONDecodeError on it.
DamageJson ==
    /\ pc = "json"
    /\ now <= MaxCalls
    /\ jsonFile.exists /\ jsonFile.parsable
    /\ jsonFile' = [jsonFile EXCEPT !.parsable = FALSE]
    /\ call' = Called("outside", <<>>, FALSE)
    /\ now' = now + 1
    /\ UNCHANGED <<csvFile, pc, data, runs, pg, req, tfd, cst, rst, scr>>

\* Another program leaves the JSON object {} at the path.
ForeignJson ==
    /\ pc = "json"
    /\ now <= MaxCalls
    /\ jsonFile # WriteJson(NoDocument)
    /\ jsonFile' = WriteJson(NoDocument)
    /\ call' = Called("outside", <<>>, FALSE)
    /\ now' = now + 1
    /\ UNCHANGED <<csvFile, pc, data, runs, pg, req, tfd, cst, rst, scr>>

\* The CSV text is damaged from outside: its rows stay in the file, and
\* reading it back raises.
DamageCsv ==
    /\ pc = "csv"
    /\ now <= MaxCalls
    /\ csvFile.exists /\ csvFile.readable
    /\ csvFile' = [csvFile EXCEPT !.readable = FALSE]
    /\ call' = Called("outside", <<>>, FALSE)
    /\ now' = now + 1
    /\ UNCHANGED <<jsonFile, pc, data, runs, pg, req, tfd, cst, rst, scr>>

NextSave ==
    \/ CallSaveJson
    \/ CallSaveCsv
    \/ DamageJson
    \/ ForeignJson
    \/ DamageCsv

SpecSave == InitSave /\ [][NextSave]_vars

(***************************************************************************)
(* Spec: runs of main (lines 420-428).  A run scrapes a list of snapshots  *)
(* for one target date, all captured at the run's time; a list that is not *)
(* empty goes to save_to_json and then to save_to_csv.  The process can be *)
(* interrupted between the two writes.  runs records, for the claims, the  *)
(* list last written to each file for each date, the dates whose last run  *)
(* was interrupted between the writes, and whether a run has replaced a    *)
(* recorded date, been interrupted, or completed after an interruption of  *)
(* the same date.                                                          *)
(***************************************************************************)
NoRuns ==
    [json |-> [d \in Dates |-> <<>>], csv |-> [d \in Dates |-> <<>>],
     pending |-> {}, replaced |-> FALSE, interrupted |-> FALSE,
     recovered |-> FALSE]

Init ==
    /\ jsonFile = JsonAbsent
    /\ csvFile = CsvAbsent
    /\ now = 1
    /\ call = NoCall
    /\ pc = "idle"
    /\ data = <<>>
    /\ runs = NoRuns
    /\ pg = NoPage
    /\ NoRequestRunning /\ NoStatsRunning /\ NoScrapeRunning

\* data = scraper.scrape_all_repos(days_ago=7)
Scrape ==
    /\ pc = "idle"
    /\ now <= MaxRuns
    /\ \E target_date \in Dates : data' \in SnapshotLists(ScrapedRepoLists, target_date, now)
    /\ pc' = "scraped"
    /\ UNCHANGED <<jsonFile, csvFile, now, call, runs, pg, req, tfd, cst, rst, scr>>

\* if data: scraper.save_to_json(data); an exception raised there ends main.
SaveJson ==
    /\ pc = "scraped"
    /\ Len(data) > 0
    /\ LET result == save_to_json(data, jsonFile, now)
           d == data[1].date
       IN /\ jsonFile' = result.file
          /\ pc' = IF result.raised THEN "idle" ELSE "json_saved"
          /\ now' = IF result.raised THEN now + 1 ELSE now
          /\ runs' = IF result.raised
                     THEN runs
                     ELSE [runs EXCEPT
                             !.json[d] = data,
                             !.replaced = @ \/ Len(runs.json[d]) > 0]
    /\ UNCHANGED <<csvFile, call, data, pg, req, tfd, cst, rst, scr>>

\* scraper.save_to_csv(data), and main returns.
SaveCsv ==
    /\ pc = "json_saved"
    /\ csvFile' = save_to_csv(data, csvFile)
    /\ pc' = "idle"
    /\ now' = now + 1
    /\ LET d == data[1].date IN
       runs' = [runs EXCEPT
                  !.csv[d] = data,
                  !.pending = @ \ {d},
                  !.recovered = @ \/ d \in runs.pending]
    /\ UNCHANGED <<jsonFile, call, data, pg, req, tfd, cst, rst, scr>>

\* A faulty variant: main saves without the test "if data".
SaveDespiteNoData ==
    /\ pc = "scraped"
    /\ Len(data) = 0
    /\ jsonFile' = save_to_json(data, jsonFile, now).file
    /\ csvFile' = save_to_csv(data, csvFile)
    /\ pc' = "idle"
    /\ now' = now + 1
    /\ UNCHANGED <<call, data, runs, pg, req, tfd, cst, rst, scr>>

\* else: print("No data collected")
NoData ==
    /\ pc = "scraped"
    /\ Len(data) = 0
    /\ pc' = "idle"
    /\ now' = now + 1
    /\ UNCHANGED <<jsonFile, csvFile, call, data, runs, pg, req, tfd, cst, rst, scr>>

\* The process is stopped after save_to_json returned and before
\* save_to_csv wrote.
Interrupt ==
    /\ pc = "json_saved"
    /\ pc' = "idle"
    /\ now' = now + 1
    /\ runs' = [runs EXCEPT
                  !.pending = @ \cup {data[1].date},
                  !.interrupted = TRUE]
    /\ UNCHANGED <<jsonFile, csvFile, call, data, pg, req, tfd, cst, rst, scr>>

Next ==
    \/ Scrape
    \/ SaveJson
    \/ SaveCsv
    \/ NoData
    \/ Interrupt

Spec == Init /\ [][Next]_vars

(***************************************************************************)
(* What the claims speak of.                                               *)
(***************************************************************************)
OfDate(entries, d) == SelectSeq(entries, LAMBDA e : e.date = d)

OtherDates(entries, d) == SelectSeq(entries, LAMBDA e : e.date # d)

\* A well-formed store: a JSON object with the sequence historical_data.
IsStore(f) == f.exists /\ f.parsable /\ f.doc.shape = "object" /\ f.doc.has_hd

\* The entries a JSON file records, also when its text no longer parses.
EntriesOf(f) ==
    IF f.exists /\ f.doc.shape = "object" /\ f.doc.has_hd
    THEN f.doc.historical_data
    ELSE <<>>

DigitValue(c) == CHOOSE v \in 0..9 : DigitChars[v + 1] = c

RECURSIVE ParseNat(_)
ParseNat(s) ==
    IF Len(s) = 0
    THEN 0
    ELSE 10 * ParseNat(SubSeq(s, 1, Len(s) - 1)) + DigitValue(s[Len(s)])

\* The integer a decimal numeral denotes.
ParseInt(s) == IF s[1] = "-" THEN 0 - ParseNat(Tail(s)) ELSE ParseNat(s)

\* The repository and the twelve metrics of a JSON entry, under the names of
\* the CSV columns.
SnapshotMetrics(e) ==
    [repository |-> e.repository.full_name,
     stars |-> e.repository.stargazers_count,
     forks |-> e.repository.forks_count,
     watchers |-> e.repository.watchers_count,
     open_issues |-> e.repository.open_issues_count,
     views |-> e.traffic.views,
     views_uniques |-> e.traffic.views_uniques,
     clones |-> e.traffic.clones,
     clones_uniques |-> e.traffic.clones_uniques,
     commits |-> e.commits.commits,
     additions |-> e.commits.additions,
     deletions |-> e.commits.deletions,
     net_change |-> e.commits.net_change]

\* The repository and the twelve metrics a CSV row holds.
RowMetrics(r) ==
    [repository |-> r.repository,
     stars |-> ParseInt(r.stars),
     forks |-> ParseInt(r.forks),
     watchers |-> ParseInt(r.watchers),
     open_issues |-> ParseInt(r.open_issues),
     views |-> ParseInt(r.views),
     views_uniques |-> ParseInt(r.views_uniques),
     clones |-> ParseInt(r.clones),
     clones_uniques |-> ParseInt(r.clones_uniques),
     commits |-> ParseInt(r.commits),
     additions |-> ParseInt(r.additions),
     deletions |-> ParseInt(r.deletions),
     net_change |-> ParseInt(r.net_change)]

\* A row is the row of a snapshot.
RowIsOf(r, e) ==
    /\ r.date = e.date
    /\ r.scraped_at = e.scraped_at
    /\ RowMetrics(r) = SnapshotMetrics(e)

NoTwoEntriesAlike(entries) ==
    \A i, j \in DOMAIN entries :
        i # j => <<entries[i].date, entries[i].repository.full_name>>
                    # <<entries[j].date, entries[j].repository.full_name>>

NoTwoRowsAlike(rows) ==
    \A i, j \in DOMAIN rows :
        i # j => <<rows[i].date, rows[i].repository>>
                    # <<rows[j].date, rows[j].repository>>

\* JSON and CSV hold the same repositories with the same metrics for date d.
Agree(d) ==
    { SnapshotMetrics(e) : e \in { EntriesOf(jsonFile)[i] :
                                     i \in { k \in DOMAIN EntriesOf(jsonFile) :
                                               EntriesOf(jsonFile)[k].date = d } } }
      = { RowMetrics(r) : r \in { csvFile.rows[i] :
                                     i \in { k \in DOMAIN csvFile.rows :
                                               csvFile.rows[k].date = d } } }

JsonMerged == call.op = "save_to_json" /\ Len(call.data) > 0

CsvMerged == call.op = "save_to_csv" /\ Len(call.data) > 0

(***************************************************************************)
(* C1.  save_to_json of a non-empty list of snapshots of date D on a       *)
(* well-formed store does not raise and leaves a well-formed store whose   *)
(* last entries are the incoming snapshots in their order, with no entry   *)
(* of date D before them.                                                  *)
(***************************************************************************)
C1_JsonMergeReplacesDate ==
    (JsonMerged /\ IsStore(call.json)) =>
        LET after == jsonFile.doc.historical_data
            k == Len(after) - Len(call.data)
        IN /\ ~call.raised
           /\ IsStore(jsonFile)
           /\ k >= 0
           /\ SubSeq(after, k + 1, Len(after)) = call.data
           /\ \A i \in 1..k : after[i].date # call.data[1].date
           /\ OfDate(after, call.data[1].date) = call.data

\* The store held entries of date D in front of entries of another date.
C1_Witness ==
    /\ JsonMerged /\ IsStore(call.json) /\ ~call.raised
    /\ Len(call.data) = 2
    /\ \E i, j \in DOMAIN call.json.doc.historical_data :
         /\ i < j
         /\ call.json.doc.historical_data[i].date = call.data[1].date
         /\ call.json.doc.historical_data[j].date # call.data[1].date
    /\ OfDate(call.json.doc.historical_data, call.data[1].date) # call.data

(***************************************************************************)
(* C2.  Merge isolation: a merge of snapshots of date D2 into a readable   *)
(* store, in either backend, leaves the entries or rows of every other     *)
(* date present, unchanged and in their order.                             *)
(***************************************************************************)
C2_MergeIsolation ==
    /\ (JsonMerged /\ call.json.exists /\ call.json.parsable
            /\ call.json.doc.shape = "object") =>
         /\ ~call.raised
         /\ OtherDates(EntriesOf(jsonFile), call.data[1].date)
              = OtherDates(EntriesOf(call.json), call.data[1].date)
    /\ (CsvMerged /\ call.csv.exists /\ call.csv.readable) =>
         OtherDates(csvFile.rows, call.data[1].date)
              = OtherDates(call.csv.rows, call.data[1].date)

\* A CSV merge into a file that held rows of the target date and of another.
C2_Witness ==
    /\ CsvMerged /\ call.csv.exists /\ call.csv.readable
    /\ Len(OfDate(call.csv.rows, call.data[1].date)) > 0
    /\ Len(OtherDates(call.csv.rows, call.data[1].date)) > 1
    /\ csvFile.rows # call.csv.rows

(***************************************************************************)
(* C3.  Merge idempotence: the second of two successive merges of the same *)
(* list leaves the entries or rows of the store as the first left them.    *)
(***************************************************************************)
C3_MergeIdempotent ==
    /\ (JsonMerged /\ call.again) =>
         /\ EntriesOf(jsonFile) = EntriesOf(call.json)
         /\ jsonFile.doc.shape = call.json.doc.shape
         /\ jsonFile.exists = call.json.exists
    /\ (CsvMerged /\ call.again) => csvFile = call.csv

\* The same list merged a second time into a store that holds another date too.
C3_Witness ==
    /\ JsonMerged /\ call.again /\ ~call.raised
    /\ Len(call.data) = 2
    /\ Len(OtherDates(EntriesOf(call.json), call.data[1].date)) > 0
    /\ Len(EntriesOf(jsonFile)) > 2

(***************************************************************************)
(* C4.  After any sequence of runs neither file holds two entries or rows  *)
(* with the same date and repository, and what each file holds for a date  *)
(* is what the last run that wrote that date to it collected.              *)
(***************************************************************************)
C4_OneEntryPerDateAndRepository ==
    /\ NoTwoEntriesAlike(EntriesOf(jsonFile))
    /\ NoTwoRowsAlike(csvFile.rows)
    /\ \A d \in Dates :
         /\ OfDate(EntriesOf(jsonFile), d) = runs.json[d]
         /\ Len(OfDate(csvFile.rows, d)) = Len(runs.csv[d])
         /\ \A i \in 1..Len(runs.csv[d]) :
              RowIsOf(OfDate(csvFile.rows, d)[i], runs.csv[d][i])

\* A run has replaced a recorded date, and both files hold both dates.
C4_Witness ==
    /\ pc = "idle"
    /\ runs.replaced
    /\ \A d \in Dates :
         Len(OfDate(EntriesOf(jsonFile), d)) = 2 /\ Len(OfDate(csvFile.rows, d)) = 2

(***************************************************************************)
(* C5.  Whatever error a merge absorbs, the entries or rows of the other   *)
(* dates that the file held are in the file written back, unchanged.       *)
(***************************************************************************)
C5_OtherDatesSurviveErrors ==
    /\ JsonMerged =>
         OtherDates(EntriesOf(jsonFile), call.data[1].date)
              = OtherDates(EntriesOf(call.json), call.data[1].date)
    /\ CsvMerged =>
         OtherDates(csvFile.rows, call.data[1].date)
              = OtherDates(call.csv.rows, call.data[1].date)

(***************************************************************************)
(* C6.  load_historical_data followed by the merge of save_to_json never   *)
(* raises, whatever the file holds.                                        *)
(***************************************************************************)
C6_MalformedStoreNeverFatal == call.op = "save_to_json" => ~call.raised

(***************************************************************************)
(* C7.  After any sequence of completed runs the two files hold, for every *)
(* date, the same repositories with the same metrics.                      *)
(***************************************************************************)
C7_JsonCsvAgree ==
    (pc = "idle" /\ ~runs.interrupted) => \A d \in Dates : Agree(d)

\* Completed runs have recorded both dates and replaced one.
C7_Witness ==
    /\ pc = "idle" /\ ~runs.interrupted
    /\ runs.replaced
    /\ \A d \in Dates : Len(OfDate(csvFile.rows, d)) > 0
    /\ \E i \in DOMAIN csvFile.rows : csvFile.rows[i].net_change = <<"-", "1", "2">>

(***************************************************************************)
(* C8.  Between runs the two files disagree at most on the dates whose     *)
(* last run was interrupted between the two writes; a completed run for    *)
(* such a date restores agreement on it, and neither file ever holds a     *)
(* date and repository twice.                                              *)
(***************************************************************************)
C8_InterruptedRunRecovered ==
    pc = "idle" =>
        /\ \A d \in Dates \ runs.pending : Agree(d)
        /\ NoTwoEntriesAlike(EntriesOf(jsonFile))
        /\ NoTwoRowsAlike(csvFile.rows)

\* A run interrupted for a date has been followed by a completed run for it,
\* with another date recorded.
C8_Witness ==
    /\ pc = "idle"
    /\ runs.recovered
    /\ runs.pending = {}
    /\ \A d \in Dates : Len(OfDate(csvFile.rows, d)) > 0

(***************************************************************************)
(* SpecPage: the page loop of get_all_repos and of get_commits against a   *)
(* server that holds a list of pg.total items, numbered from 1.  Each      *)
(* request succeeds, and _make_request returns the page asked for, or      *)
(* fails, and _make_request returns None.  pg holds the loop's locals      *)
(* (page, and items for repos / commits), whether the loop has left, and   *)
(* log, the requests made so far: the parameters sent, whether the request *)
(* succeeded and how many items came back.                                 *)
(***************************************************************************)
per_page == 100

Min(a, b) == IF a < b THEN a ELSE b

\* The page of the server's list that the parameters page and per_page select.
ServerPage(total, page, size) ==
    LET first == (page - 1) * size
        n == IF total > first THEN Min(size, total - first) ELSE 0
    IN [i \in 1..n |-> first + i]

\* A faulty variant: the test for a short page made before the page is kept.
BreakBeforeExtend(p, response) ==
    LET request == [page |-> p.page, per_page |-> per_page,
                    ok |-> response # None,
                    n |-> IF response # None THEN Len(response[1]) ELSE 0]
        logged == [p EXCEPT !.log = Append(@, request)]
    IN IF response = None \/ Len(response[1]) = 0
       THEN [logged EXCEPT !.done = TRUE]
       ELSE IF Len(response[1]) < per_page
            THEN [logged EXCEPT !.done = TRUE]
            ELSE [logged EXCEPT !.items = @ \o response[1], !.page = @ + 1]

\* A faulty variant: a full page taken for the last one.
BreakOnFullPage(p, response) ==
    LET request == [page |-> p.page, per_page |-> per_page,
                    ok |-> response # None,
                    n |-> IF response # None THEN Len(response[1]) ELSE 0]
        logged == [p EXCEPT !.log = Append(@, request)]
    IN IF response = None \/ Len(response[1]) = 0
       THEN [logged EXCEPT !.done = TRUE]
       ELSE IF Len(response[1]) <= per_page
            THEN [logged EXCEPT !.items = @ \o response[1], !.done = TRUE]
            ELSE [logged EXCEPT !.items = @ \o response[1], !.page = @ + 1]

\* One turn of the while loop (lines 71-84 and 135-152): the request for
\* page p.page has returned response, None or <<the list of items>>.
PageIteration(p, response) ==
    LET request == [page |-> p.page, per_page |-> per_page,
                    ok |-> response # None,
                    n |-> IF response # None THEN Len(response[1]) ELSE 0]
        logged == [p EXCEPT !.log = Append(@, request)]
    IN IF response = None \/ Len(response[1]) = 0
       THEN [logged EXCEPT !.done = TRUE]
       ELSE IF Len(response[1]) < per_page
            THEN [logged EXCEPT !.items = @ \o response[1], !.done = TRUE]
            ELSE [logged EXCEPT !.items = @ \o response[1], !.page = @ + 1]

\* What _make_request can return for the current page.
Responses == { None, << ServerPage(pg.total, pg.page, per_page) >> }

InitPage ==
    /\ jsonFile = JsonAbsent
    /\ csvFile = CsvAbsent
    /\ now = 1
    /\ call = NoCall
    /\ pc = "idle"
    /\ data = <<>>
    /\ runs = NoRuns
    /\ pg \in { [fn |-> fn, total |-> total, page |-> 1, items |-> <<>>,
                 log |-> <<>>, done |-> FALSE] :
                  fn \in {"get_all_repos", "get_commits"}, total \in 0..MaxTotal }
    /\ NoRequestRunning /\ NoStatsRunning /\ NoScrapeRunning

GetAllReposPage ==
    /\ pg.fn = "get_all_repos"
    /\ ~pg.done
    /\ \E response \in Responses : pg' = PageIteration(pg, response)
    /\ UNCHANGED <<jsonFile, csvFile, now, call, pc, data, runs, req, tfd, cst, rst, scr>>

GetCommitsPage ==
    /\ pg.fn = "get_commits"
    /\ ~pg.done
    /\ \E response \in Responses : pg' = PageIteration(pg, response)
    /\ UNCHANGED <<jsonFile, csvFile, now, call, pc, data, runs, req, tfd, cst, rst, scr>>

NextPage ==
    \/ GetAllReposPage
    \/ GetCommitsPage

SpecPage == InitPage /\ [][NextPage]_vars

Ceil(a, b) == (a + b - 1) \div b

EveryRequestSucceeded == \A i \in DOMAIN pg.log : pg.log[i].ok

\* The first n items of the server's list.
FirstItems(n) == [i \in 1..n |-> i]

(***************************************************************************)
(* C9, as claimed.  When every request succeeds and the last page of the   *)
(* list has fewer than 100 items (total is no positive multiple of 100;    *)
(* the one page of an empty list is empty), the loop returns the whole     *)
(* list and has made ceil(total / 100) requests.                           *)
(***************************************************************************)
C9_CeilRequests ==
    (/\ pg.done /\ pg.fn # "none" /\ EveryRequestSucceeded
     /\ (pg.total % per_page # 0 \/ pg.total = 0)) =>
        /\ pg.items = FirstItems(pg.total)
        /\ Len(pg.log) = Ceil(pg.total, per_page)

(***************************************************************************)
(* C9, amended.  When every request succeeds the loop returns the whole    *)
(* list and has made total \div 100 + 1 requests: ceil(total / 100) when   *)
(* total is not a multiple of 100, and one more, for the empty page that   *)
(* ends the list, when it is (0 included).                                 *)
(***************************************************************************)
C9_RequestCount ==
    (pg.done /\ pg.fn # "none" /\ EveryRequestSucceeded) =>
        /\ pg.items = FirstItems(pg.total)
        /\ Len(pg.log) = (pg.total \div per_page) + 1
        /\ pg.total % per_page # 0 => Len(pg.log) = Ceil(pg.total, per_page)
        /\ pg.total % per_page = 0 => Len(pg.log) = Ceil(pg.total, per_page) + 1

\* Three pages, the last one short, all received.
C9_Witness ==
    /\ pg.done /\ pg.fn = "get_commits" /\ EveryRequestSucceeded
    /\ Len(pg.log) = 3
    /\ pg.log[3].n > 0
    /\ Len(pg.items) = pg.total

(***************************************************************************)
(* C10.  The loop asks for pages 1, 2, 3, ... with per_page = 100; every   *)
(* request but the last one made came back with 100 items, and the loop    *)
(* has left exactly when the last one failed or came back with fewer than  *)
(* 100; what it holds is the pages received so far, in order, so a failure *)
(* after k full pages leaves the first 100 * k items.                      *)
(***************************************************************************)
C10_StopRule ==
    pg.fn # "none" =>
        LET n == Len(pg.log) IN
        /\ \A i \in 1..n : pg.log[i].page = i /\ pg.log[i].per_page = 100
        /\ \A i \in 1..(n - 1) : pg.log[i].ok /\ pg.log[i].n = 100
        /\ pg.done <=> (n > 0 /\ (~pg.log[n].ok \/ pg.log[n].n < 100))
        /\ ~pg.done => pg.page = n + 1
        /\ n > 0 =>
             pg.items = FirstItems(100 * (n - 1)
                                     + (IF pg.log[n].ok THEN pg.log[n].n ELSE 0))

\* The third request failed after two full pages: 200 items are returned.
C10_Witness ==
    /\ pg.done /\ pg.fn = "get_all_repos"
    /\ Len(pg.log) = 3
    /\ ~pg.log[3].ok
    /\ Len(pg.items) = 200

(***************************************************************************)
(* SpecScrape: one call of scrape_all_repos (lines 240-265).  The account  *)
(* holds the first scr.total repositories of AccountRepos; get_all_repos   *)
(* lists them with the page loop above (pg), and the loop of lines 257-263 *)
(* calls get_repo_stats for each, which returns a snapshot or raises.  The *)
(* calendar day (scr.today, a day number) can change while the call runs.  *)
(* scr.visited and scr.raised record, for the claims, the repositories the *)
(* loop has taken and the positions at which get_repo_stats raised.        *)
(***************************************************************************)
days_ago == 7

Gamma ==
    [name |-> "gamma", full_name |-> "Sesquii/gamma", owner |-> "Sesquii",
     url |-> "https://github.com/Sesquii/gamma"]

\* The repositories of the account, in the order the API lists them.
AccountRepos == <<Alpha, Beta, Gamma>>

\* strftime("%Y-%m-%d") of the days numbered 1 to 10.
Calendar ==
    <<"2024-01-01", "2024-01-02", "2024-01-03", "2024-01-04", "2024-01-05",
      "2024-01-06", "2024-01-07", "2024-01-08", "2024-01-09", "2024-01-10">>

strftime(day) == Calendar[day]

\* (datetime.now() - timedelta(days=days_ago)).strftime("%Y-%m-%d")
TargetDate(today) == strftime(today - days_ago)

\* A faulty variant: the date worked out again for each repository.
DateOfTheMoment(s) == TargetDate(s.today)

\* The target_date that line 259 passes to get_repo_stats.
LoopDate(s) == s.target_date

\* A faulty variant: the exception of one repository ends the loop.
AbortOnRaise(s, outcome) ==
    LET repo == s.repos[s.i] IN
    IF outcome = None
    THEN [s EXCEPT !.visited = Append(@, repo), !.raised = @ \cup {s.i},
                   !.pc = "done"]
    ELSE [s EXCEPT !.visited = Append(@, repo), !.i = @ + 1,
                   !.all_stats = Append(@, Stats(LoopDate(s), repo, outcome[1], s.today))]

\* A faulty variant: the repository that raised is taken again.
RetryOnRaise(s, outcome) ==
    LET repo == s.repos[s.i] IN
    IF outcome = None
    THEN s
    ELSE [s EXCEPT !.visited = Append(@, repo), !.i = @ + 1,
                   !.all_stats = Append(@, Stats(LoopDate(s), repo, outcome[1], s.today))]

\* One turn of the for loop (lines 257-263): get_repo_stats raised (outcome
\* None) or returned the snapshot made of the values <<p>> it fetched.
ScrapeIteration(s, outcome) ==
    LET repo == s.repos[s.i] IN
    IF outcome = None
    THEN [s EXCEPT !.visited = Append(@, repo), !.raised = @ \cup {s.i},
                   !.i = @ + 1]
    ELSE [s EXCEPT !.visited = Append(@, repo), !.i = @ + 1,
                   !.all_stats = Append(@, Stats(LoopDate(s), repo, outcome[1], s.today))]

InitScrape ==
    /\ jsonFile = JsonAbsent
    /\ csvFile = CsvAbsent
    /\ now = 1
    /\ call = NoCall
    /\ pc = "idle"
    /\ data = <<>>
    /\ runs = NoRuns
    /\ pg = NoPage
    /\ NoRequestRunning /\ NoStatsRunning
    /\ scr \in { [pc |-> "start", total |-> total, today |-> today, called |-> today,
                  target_date |-> "", repos |-> <<>>, i |-> 1, all_stats |-> <<>>,
                  visited |-> <<>>, raised |-> {}] :
                   total \in 0..Len(AccountRepos), today \in {days_ago + 1, days_ago + 2} }

\* Lines 251-254: the target date is worked out and get_all_repos is called.
ScrapeStart ==
    /\ scr.pc = "start"
    /\ scr' = [scr EXCEPT !.target_date = TargetDate(scr.today), !.pc = "enumerate"]
    /\ pg' = [fn |-> "get_all_repos", total |-> scr.total, page |-> 1,
              items |-> <<>>, log |-> <<>>, done |-> FALSE]
    /\ UNCHANGED <<jsonFile, csvFile, now, call, pc, data, runs, req, tfd, cst, rst>>

\* get_all_repos returns: repos is the list it collected.
ScrapeEnumerated ==
    /\ scr.pc = "enumerate"
    /\ pg.done
    /\ scr' = [scr EXCEPT !.repos = [k \in 1..Len(pg.items) |-> AccountRepos[pg.items[k]]],
                          !.pc = "loop"]
    /\ UNCHANGED <<jsonFile, csvFile, now, call, pc, data, runs, pg, req, tfd, cst, rst>>

ScrapeRepo ==
    /\ scr.pc = "loop"
    /\ scr.i <= Len(scr.repos)
    /\ \E outcome \in {None} \cup { <<p>> : p \in Profiles } :
         scr' = ScrapeIteration(scr, outcome)
    /\ UNCHANGED <<jsonFile, csvFile, now, call, pc, data, runs, pg, req, tfd, cst, rst>>

\* return all_stats
ScrapeReturn ==
    /\ scr.pc = "loop"
    /\ scr.i > Len(scr.repos)
    /\ scr' = [scr EXCEPT !.pc = "done"]
    /\ UNCHANGED <<jsonFile, csvFile, now, call, pc, data, runs, pg, req, tfd, cst, rst>>

\* Midnight passes after line 251 and before the call returns.
Midnight ==
    /\ scr.pc \in {"enumerate", "loop"}
    /\ scr.today < Len(Calendar)
    /\ scr' = [scr EXCEPT !.today = @ + 1]
    /\ UNCHANGED <<jsonFile, csvFile, now, call, pc, data, runs, pg, req, tfd, cst, rst>>

NextScrape ==
    \/ ScrapeStart
    \/ GetAllReposPage
    \/ ScrapeEnumerated
    \/ ScrapeRepo
    \/ ScrapeReturn
    \/ Midnight

SpecScrape == InitScrape /\ [][NextScrape]_vars

\* The positions before n at which get_repo_stats returned a snapshot.
Returned(n) == SelectSeq([k \in 1..(n - 1) |-> k], LAMBDA k : k \notin scr.raised)

(***************************************************************************)
(* C11.  The loop of scrape_all_repos takes every enumerated repository    *)
(* once, in order, whichever of them raise; all_stats holds one snapshot   *)
(* for each repository that did not raise, in enumeration order, and the   *)
(* call returns only after the last repository.                            *)
(***************************************************************************)
C11_OneFailureNeverAborts ==
    scr.pc \in {"loop", "done"} =>
        /\ scr.i <= Len(scr.repos) + 1
        /\ scr.visited = SubSeq(scr.repos, 1, scr.i - 1)
        /\ Len(scr.all_stats) = Len(Returned(scr.i))
        /\ \A j \in 1..Len(scr.all_stats) :
             scr.all_stats[j].repository.full_name
                = scr.repos[Returned(scr.i)[j]].full_name
        /\ scr.pc = "done" => scr.visited = scr.repos

\* Of three repositories the second raised, and the call has returned two
\* snapshots.
C11_Witness ==
    /\ scr.pc = "done"
    /\ Len(scr.repos) = 3
    /\ scr.raised = {2}
    /\ Len(scr.all_stats) = 2

(***************************************************************************)
(* SpecCommits: one call of get_commit_stats (lines 156-178).  get_commits *)
(* has listed cst.commits; the loop of lines 165-172 asks for the detail   *)
(* of each, and the request returns None, a detail without "stats", or a   *)
(* detail whose stats object holds or lacks "additions" and "deletions".   *)
(* cst.log records, for the claims, every detail request and its answer.   *)
(***************************************************************************)
MaxCommits == 3

\* dict.get(key, default) on a field that holds None when the key is absent.
Get(field, default) == IF field = None THEN default ELSE field[1]

StatsObjects == [additions : {None, <<0>>, <<3>>, <<5>>},
                 deletions : {None, <<0>>, <<1>>, <<2>>}]

\* What _make_request returns for a commit: None, or the decoded detail.
CommitDetails ==
    {None} \cup { <<[stats |-> None]>> } \cup { <<[stats |-> <<st>>]>> : st \in StatsObjects }

\* A faulty variant: a commit without usable detail ends the loop.
AbortOnNoDetail(s, commit_detail) ==
    LET sha == s.commits[s.k].sha
        logged == Append(s.log, [sha |-> sha, detail |-> commit_detail])
    IN  IF commit_detail # None /\ commit_detail[1].stats # None
        THEN [s EXCEPT !.log = logged, !.k = @ + 1,
                       !.total_additions = @ + Get(commit_detail[1].stats[1].additions, 0),
                       !.total_deletions = @ + Get(commit_detail[1].stats[1].deletions, 0)]
        ELSE [s EXCEPT !.log = logged, !.k = Len(s.commits) + 1]

\* A faulty variant: deletions are added to the additions.
SumIntoAdditions(s) ==
    [commits |-> Len(s.commits),
     additions |-> s.total_additions + s.total_deletions,
     deletions |-> s.total_deletions,
     net_change |-> s.total_additions - s.total_deletions]

\* One turn of the loop of lines 165-172.
CommitIteration(s, commit_detail) ==
    LET sha == s.commits[s.k].sha
        logged == Append(s.log, [sha |-> sha, detail |-> commit_detail])
    IN  IF commit_detail # None /\ commit_detail[1].stats # None
        THEN [s EXCEPT !.log = logged, !.k = @ + 1,
                       !.total_additions = @ + Get(commit_detail[1].stats[1].additions, 0),
                       !.total_deletions = @ + Get(commit_detail[1].stats[1].deletions, 0)]
        ELSE [s EXCEPT !.log = logged, !.k = @ + 1]

\* The dictionary of lines 173-178.
CommitStatsResult(s) ==
    [commits |-> Len(s.commits),
     additions |-> s.total_additions,
     deletions |-> s.total_deletions,
     net_change |-> s.total_additions - s.total_deletions]

InitCommits ==
    /\ jsonFile = JsonAbsent
    /\ csvFile = CsvAbsent
    /\ now = 1
    /\ call = NoCall
    /\ pc = "idle"
    /\ data = <<>>
    /\ runs = NoRuns
    /\ pg = NoPage
    /\ NoRequestRunning /\ NoScrapeRunning
    /\ tfd = NoTraffic /\ rst = NoRepoStats
    /\ cst \in { [state |-> "loop", commits |-> [k \in 1..n |-> [sha |-> k]], k |-> 1,
                  total_additions |-> 0, total_deletions |-> 0, log |-> <<>>,
                  result |-> None] : n \in 0..MaxCommits }

\* Lines 165-172: the detail of the next commit is asked for and added up.
CommitDetail ==
    /\ cst.state = "loop"
    /\ cst.k <= Len(cst.commits)
    /\ \E commit_detail \in CommitDetails : cst' = CommitIteration(cst, commit_detail)
    /\ UNCHANGED <<jsonFile, csvFile, now, call, pc, data, runs, pg, req, tfd, rst, scr>>

\* Lines 173-178: the totals are returned.
CommitStatsReturn ==
    /\ cst.state = "loop"
    /\ cst.k > Len(cst.commits)
    /\ cst' = [cst EXCEPT !.state = "returned", !.result = <<CommitStatsResult(cst)>>]
    /\ UNCHANGED <<jsonFile, csvFile, now, call, pc, data, runs, pg, req, tfd, rst, scr>>

NextCommits ==
    \/ CommitDetail
    \/ CommitStatsReturn

SpecCommits == InitCommits /\ [][NextCommits]_vars

\* What the detail request of one commit contributes to a total.
Contribution(entry, key) ==
    IF entry.detail = None THEN 0
    ELSE IF entry.detail[1].stats = None THEN 0
    ELSE IF entry.detail[1].stats[1][key] = None THEN 0
    ELSE entry.detail[1].stats[1][key][1]

RECURSIVE SumOfLog(_, _)
SumOfLog(log, key) ==
    IF log = <<>> THEN 0
    ELSE Contribution(log[1], key) + SumOfLog(Tail(log), key)

(***************************************************************************)
(* C12.  get_commit_stats asks once for the detail of each listed commit,  *)
(* in order; it returns commits = the number listed, additions and         *)
(* deletions = the sums over the commits whose detail came with a stats    *)
(* object (the others counting zero), and net_change = additions minus     *)
(* deletions.                                                              *)
(***************************************************************************)
C12_CommitAggregation ==
    cst.state = "returned" =>
        /\ Len(cst.log) = Len(cst.commits)
        /\ \A k \in 1..Len(cst.commits) : cst.log[k].sha = cst.commits[k].sha
        /\ cst.result[1].commits = Len(cst.commits)
        /\ cst.result[1].additions = SumOfLog(cst.log, "additions")
        /\ cst.result[1].deletions = SumOfLog(cst.log, "deletions")
        /\ cst.result[1].net_change = cst.result[1].additions - cst.result[1].deletions

\* Three commits with additions 5, 0, 3 and deletions 1, 2, 0.
C12_Witness ==
    /\ cst.state = "returned"
    /\ Len(cst.log) = 3
    /\ \A k \in 1..3 : cst.log[k].detail # None /\ cst.log[k].detail[1].stats # None
    /\ [k \in 1..3 |-> cst.log[k].detail[1].stats[1].additions] = << <<5>>, <<0>>, <<3>> >>
    /\ [k \in 1..3 |-> cst.log[k].detail[1].stats[1].deletions] = << <<1>>, <<2>>, <<0>> >>
    /\ cst.result[1] = [commits |-> 3, additions |-> 8, deletions |-> 3, net_change |-> 5]

\* The second of three detail requests failed, the third came without stats.
C12_WitnessFailure ==
    /\ cst.state = "returned"
    /\ Len(cst.log) = 3
    /\ cst.log[2].detail = None
    /\ cst.log[1].detail # None /\ cst.log[1].detail[1].stats # None
    /\ cst.log[3].detail # None /\ cst.log[3].detail[1].stats = None
    /\ cst.result[1].commits = 3
    /\ cst.result[1].additions = 5

(***************************************************************************)
(* SpecTraffic: one call of get_traffic_for_date (lines 101-116).  The     *)
(* argument traffic_data is None or the decoded response, whose "views"    *)
(* and "clones" fields hold None when the key is absent; a response with   *)
(* neither key stands for the empty one as well.  Timestamps and dates are *)
(* strings, and [:10] is taken character by character.                     *)
(***************************************************************************)
MaxEntries == 2

Timestamps ==
    {"2024-01-01T00:00:00Z", "2024-01-01T12:00:00Z", "2024-01-02T00:00:00Z",
     "2024-01-03T00:00:00Z"}

TargetDates == {"2024-01-01", "2024-01-02", "2024-01-05"}

TrafficEntries == [timestamp : Timestamps, count : {None, <<4>>, <<9>>},
                   uniques : {None, <<2>>}]

TrafficSeries == UNION { [1..n -> TrafficEntries] : n \in 0..MaxEntries }

\* A series of another key, for the responses that hold both keys.
OtherSeries ==
    { <<>>, << [timestamp |-> "2024-01-01T00:00:00Z", count |-> <<7>>, uniques |-> <<1>>] >> }

TrafficData ==
    {None}
      \cup { <<[views |-> None, clones |-> None]>> }
      \cup { <<[views |-> <<sr>>, clones |-> None]>> : sr \in TrafficSeries }
      \cup { <<[views |-> None, clones |-> <<sr>>]>> : sr \in TrafficSeries }
      \cup { <<[views |-> <<sr>>, clones |-> <<other>>]>> :
                 sr \in OtherSeries, other \in OtherSeries }

\* text[:n]
Prefix(text, n) == SubSeq(text, 1, Min(n, Len(text)))

ZeroTraffic == [count |-> 0, uniques |-> 0]

\* A faulty variant: the loop goes on after a match, so the last match wins.
RECURSIVE LastMatch(_, _, _)
LastMatch(entries, target_date, result) ==
    IF entries = <<>> THEN result
    ELSE IF Prefix(entries[1].timestamp, 10) = target_date
         THEN LastMatch(Tail(entries), target_date,
                        [count |-> Get(entries[1].count, 0),
                         uniques |-> Get(entries[1].uniques, 0)])
         ELSE LastMatch(Tail(entries), target_date, result)

\* A faulty variant: the whole timestamp is compared with the date.
RECURSIVE WholeTimestampMatch(_, _, _)
WholeTimestampMatch(entries, target_date, result) ==
    IF entries = <<>> THEN result
    ELSE IF entries[1].timestamp = target_date
         THEN [count |-> Get(entries[1].count, 0),
               uniques |-> Get(entries[1].uniques, 0)]
         ELSE WholeTimestampMatch(Tail(entries), target_date, result)

\* The for loop of lines 109-114, which breaks at the first match.
RECURSIVE FirstMatch(_, _, _)
FirstMatch(entries, target_date, result) ==
    IF entries = <<>> THEN result
    ELSE IF Prefix(entries[1].timestamp, 10) = target_date
         THEN [count |-> Get(entries[1].count, 0),
               uniques |-> Get(entries[1].uniques, 0)]
         ELSE FirstMatch(Tail(entries), target_date, result)

\* Lines 101-116.
get_traffic_for_date(traffic_data, target_date) ==
    IF traffic_data = None \/ traffic_data[1] = [views |-> None, clones |-> None]
    THEN ZeroTraffic
    ELSE LET data_key == IF traffic_data[1].views # None THEN "views" ELSE "clones"
         IN  IF traffic_data[1][data_key] # None
             THEN FirstMatch(traffic_data[1][data_key][1], target_date, ZeroTraffic)
             ELSE ZeroTraffic

InitTraffic ==
    /\ jsonFile = JsonAbsent
    /\ csvFile = CsvAbsent
    /\ now = 1
    /\ call = NoCall
    /\ pc = "idle"
    /\ data = <<>>
    /\ runs = NoRuns
    /\ pg = NoPage
    /\ NoRequestRunning /\ NoScrapeRunning
    /\ cst = NoCommitStats /\ rst = NoRepoStats
    /\ tfd \in [state : {"called"}, traffic_data : TrafficData,
                target_date : TargetDates, result : {None}]

TrafficForDate ==
    /\ tfd.state = "called"
    /\ tfd' = [tfd EXCEPT !.state = "returned",
                          !.result = <<get_traffic_for_date(tfd.traffic_data, tfd.target_date)>>]
    /\ UNCHANGED <<jsonFile, csvFile, now, call, pc, data, runs, pg, req, cst, rst, scr>>

NextTraffic == TrafficForDate

SpecTraffic == InitTraffic /\ [][NextTraffic]_vars

\* The series the call reads: the one under "views", else the one under
\* "clones", else none.
SeriesRead ==
    IF tfd.traffic_data = None THEN <<>>
    ELSE IF tfd.traffic_data[1].views # None THEN tfd.traffic_data[1].views[1]
    ELSE IF tfd.traffic_data[1].clones # None THEN tfd.traffic_data[1].clones[1]
    ELSE <<>>

\* The positions of the entries of the target date.
Matching ==
    { k \in 1..Len(SeriesRead) :
        /\ Len(SeriesRead[k].timestamp) >= 10
        /\ \A c \in 1..10 : SubSeq(SeriesRead[k].timestamp, c, c) = SubSeq(tfd.target_date, c, c)
        /\ Len(tfd.target_date) = 10 }

(***************************************************************************)
(* C13.  get_traffic_for_date returns the count and uniques (0 for a       *)
(* missing field) of the first entry of the series whose timestamp starts  *)
(* with the ten characters of the target date, and count 0, uniques 0 when *)
(* no entry does or there is no series.                                    *)
(***************************************************************************)
C13_TrafficForDate ==
    tfd.state = "returned" =>
        IF Matching = {}
        THEN tfd.result[1] = [count |-> 0, uniques |-> 0]
        ELSE LET first == CHOOSE k \in Matching : \A j \in Matching : k <= j
                 entry == SeriesRead[first]
             IN  /\ tfd.result[1].count = (IF entry.count = None THEN 0 ELSE entry.count[1])
                 /\ tfd.result[1].uniques = (IF entry.uniques = None THEN 0 ELSE entry.uniques[1])

\* Two entries of the target date under "clones": the first one is returned.
C13_Witness ==
    /\ tfd.state = "returned"
    /\ tfd.traffic_data # None
    /\ tfd.traffic_data[1].views = None /\ tfd.traffic_data[1].clones # None
    /\ Matching = {1, 2}
    /\ SeriesRead[1].count = <<4>> /\ SeriesRead[2].count = <<9>>
    /\ SeriesRead[1].uniques = <<2>>
    /\ tfd.result[1] = [count |-> 4, uniques |-> 2]

\* A series under "views" with no entry of the target date.
C13_WitnessNoMatch ==
    /\ tfd.state = "returned"
    /\ tfd.traffic_data # None /\ tfd.traffic_data[1].views # None
    /\ Len(SeriesRead) = 2
    /\ Matching = {}
    /\ tfd.result[1] = [count |-> 0, uniques |-> 0]

(***************************************************************************)
(* SpecStats: one call of get_repo_stats (lines 180-238).  The views       *)
(* request, the clones request and get_commit_stats follow one another;    *)
(* each request returns None when it failed.  get_commit_stats is the      *)
(* commit listing (empty when its request failed) followed by the loop of  *)
(* SpecCommits.  rst.requests, rst.listing and rst.details record, for the *)
(* claims, what was asked and what was answered.                           *)
(***************************************************************************)
ViewsResponses ==
    { None,
      <<[views |-> << <<[timestamp |-> "2024-01-01T00:00:00Z", count |-> <<105>>,
                        uniques |-> <<40>>]>> >>, clones |-> None]>>,
      <<[views |-> << <<[timestamp |-> "2024-01-02T00:00:00Z", count |-> <<31>>,
                        uniques |-> <<6>>]>> >>, clones |-> None]>> }

ClonesResponses ==
    { None,
      <<[views |-> None, clones |-> << <<[timestamp |-> "2024-01-01T00:00:00Z",
                        count |-> <<7>>, uniques |-> <<5>>]>> >>]>>,
      <<[views |-> None, clones |-> << <<[timestamp |-> "2024-01-02T00:00:00Z",
                        count |-> <<2>>, uniques |-> <<1>>]>> >>]>> }

\* What the detail request of a commit returns in this specification.
RepoCommitDetails ==
    { None, <<[stats |-> None]>>,
      <<[stats |-> <<[additions |-> <<5>>, deletions |-> <<1>>]>>]>> }

\* The loop of lines 165-172 run to its end over the answers given.
RECURSIVE CommitLoop(_, _)
CommitLoop(s, details) ==
    IF details = <<>> THEN s
    ELSE CommitLoop(CommitIteration(s, details[1]), Tail(details))

\* get_commit_stats: listing is what the commits request returned (None when
\* it failed, so that get_commits returns []), details the detail answers.
get_commit_stats(listing, details) ==
    LET commits == IF listing = None THEN <<>> ELSE listing[1]
    IN  CommitStatsResult(CommitLoop([state |-> "loop", commits |-> commits, k |-> 1,
                                      total_additions |-> 0, total_deletions |-> 0,
                                      log |-> <<>>, result |-> None], details))

\* Line 206.
views_for_date(s) ==
    IF s.views_data # None
    THEN get_traffic_for_date(s.views_data, s.target_date) ELSE ZeroTraffic

\* A faulty variant: the clones are read only when the views request succeeded.
ClonesGatedByViews(s) ==
    IF s.views_data # None /\ s.clones_data # None
    THEN get_traffic_for_date(s.clones_data, s.target_date) ELSE ZeroTraffic

\* Line 207.
clones_for_date(s) ==
    IF s.clones_data # None
    THEN get_traffic_for_date(s.clones_data, s.target_date) ELSE ZeroTraffic

\* The stats dictionary of lines 213-236.
CompileStats(s, stamp) ==
    Stats(s.target_date, s.repo,
          [Quiet EXCEPT !.views = views_for_date(s).count,
                        !.views_uniques = views_for_date(s).uniques,
                        !.clones = clones_for_date(s).count,
                        !.clones_uniques = clones_for_date(s).uniques,
                        !.commits = s.commit_stats[1].commits,
                        !.additions = s.commit_stats[1].additions,
                        !.deletions = s.commit_stats[1].deletions],
          stamp)

InitStats ==
    /\ jsonFile = JsonAbsent
    /\ csvFile = CsvAbsent
    /\ now = 1
    /\ call = NoCall
    /\ pc = "idle"
    /\ data = <<>>
    /\ runs = NoRuns
    /\ pg = NoPage
    /\ NoRequestRunning /\ NoScrapeRunning
    /\ tfd = NoTraffic /\ cst = NoCommitStats
    /\ rst \in { [state |-> "views", repo |-> repo, target_date |-> target_date,
                  views_data |-> None, clones_data |-> None, listing |-> None,
                  details |-> <<>>, commit_stats |-> None, requests |-> <<>>,
                  stats |-> None] : repo \in Repos, target_date \in Dates }

\* Line 202: views_data = self.get_traffic_views(owner, repo_name)
RepoViews ==
    /\ rst.state = "views"
    /\ \E response \in ViewsResponses :
         rst' = [rst EXCEPT !.views_data = response, !.requests = Append(@, "views"),
                            !.state = "clones"]
    /\ UNCHANGED <<jsonFile, csvFile, now, call, pc, data, runs, pg, req, tfd, cst, scr>>

\* Line 203: clones_data = self.get_traffic_clones(owner, repo_name)
RepoClones ==
    /\ rst.state = "clones"
    /\ \E response \in ClonesResponses :
         rst' = [rst EXCEPT !.clones_data = response, !.requests = Append(@, "clones"),
                            !.state = "commits"]
    /\ UNCHANGED <<jsonFile, csvFile, now, call, pc, data, runs, pg, req, tfd, cst, scr>>

\* Line 210: commit_stats = self.get_commit_stats(...)
RepoCommits ==
    /\ rst.state = "commits"
    /\ \E n \in 0..MaxCommits, failed \in BOOLEAN :
         \E details \in [1..(IF failed THEN 0 ELSE n) -> RepoCommitDetails] :
            LET listing == IF failed THEN None ELSE <<[k \in 1..n |-> [sha |-> k]]>>
            IN  rst' = [rst EXCEPT !.listing = listing, !.details = details,
                                   !.commit_stats = <<get_commit_stats(listing, details)>>,
                                   !.requests = Append(@, "commits"),
                                   !.state = "compile"]
    /\ UNCHANGED <<jsonFile, csvFile, now, call, pc, data, runs, pg, req, tfd, cst, scr>>

\* Lines 213-238: the snapshot is compiled and returned.
RepoCompile ==
    /\ rst.state = "compile"
    /\ rst' = [rst EXCEPT !.stats = <<CompileStats(rst, now)>>, !.state = "returned"]
    /\ UNCHANGED <<jsonFile, csvFile, now, call, pc, data, runs, pg, req, tfd, cst, scr>>

NextStats ==
    \/ RepoViews
    \/ RepoClones
    \/ RepoCommits
    \/ RepoCompile

SpecStats == InitStats /\ [][NextStats]_vars

\* The count and uniques a successful traffic response holds for the date.
Fetched(response, key, date) ==
    LET entry == response[1][key][1][1]
    IN  IF SubSeq(entry.timestamp, 1, 10) = date
        THEN [count |-> entry.count[1], uniques |-> entry.uniques[1]]
        ELSE [count |-> 0, uniques |-> 0]

\* The additions or deletions of the details that came with stats.
RECURSIVE SumOfDetails(_, _)
SumOfDetails(details, key) ==
    IF details = <<>> THEN 0
    ELSE (IF details[1] # None /\ details[1][1].stats # None
          THEN details[1][1].stats[1][key][1] ELSE 0)
         + SumOfDetails(Tail(details), key)

(***************************************************************************)
(* C14.  get_repo_stats issues the views request, the clones request and   *)
(* the commit requests whichever of them fail, and returns a snapshot in   *)
(* which each failed part is zero and each successful part holds what was  *)
(* fetched for the target date.                                            *)
(***************************************************************************)
C14_PartsDegradeIndependently ==
    rst.state = "returned" =>
        /\ rst.requests = <<"views", "clones", "commits">>
        /\ rst.stats # None
        /\ rst.stats[1].date = rst.target_date
        /\ rst.stats[1].repository.full_name = rst.repo.full_name
        /\ LET t == rst.stats[1].traffic
               v == IF rst.views_data = None THEN [count |-> 0, uniques |-> 0]
                    ELSE Fetched(rst.views_data, "views", rst.target_date)
               c == IF rst.clones_data = None THEN [count |-> 0, uniques |-> 0]
                    ELSE Fetched(rst.clones_data, "clones", rst.target_date)
           IN  /\ t.views = v.count /\ t.views_uniques = v.uniques
               /\ t.clones = c.count /\ t.clones_uniques = c.uniques
        /\ rst.stats[1].commits =
              IF rst.listing = None
              THEN [commits |-> 0, additions |-> 0, deletions |-> 0, net_change |-> 0]
              ELSE [commits |-> Len(rst.listing[1]),
                    additions |-> SumOfDetails(rst.details, "additions"),
                    deletions |-> SumOfDetails(rst.details, "deletions"),
                    net_change |-> SumOfDetails(rst.details, "additions")
                                     - SumOfDetails(rst.details, "deletions")]

\* The views request failed; the clones and the commits came through.
C14_Witness ==
    /\ rst.state = "returned"
    /\ rst.views_data = None
    /\ rst.clones_data # None
    /\ rst.listing # None
    /\ rst.stats[1].traffic = [views |-> 0, views_uniques |-> 0,
                               clones |-> 7, clones_uniques |-> 5]
    /\ rst.stats[1].commits.commits = 2
    /\ rst.stats[1].commits.additions = 10

\* Every request failed: a snapshot of zeros is returned all the same.
C14_WitnessAllFailed ==
    /\ rst.state = "returned"
    /\ rst.views_data = None /\ rst.clones_data = None /\ rst.listing = None
    /\ rst.stats # None
    /\ rst.stats[1].traffic = [views |-> 0, views_uniques |-> 0,
                               clones |-> 0, clones_uniques |-> 0]
    /\ rst.stats[1].commits.commits = 0

(***************************************************************************)
(* SpecRequest: one call of _make_request (lines 52-62) on the session of  *)
(* _create_session (lines 34-50).  session.get sends the request through   *)
(* the adapter, whose Retry object (lines 37-41, the other parameters at   *)
(* the library's defaults) decides after each attempt whether to send it   *)
(* again; what comes back is a response, or an exception of the requests   *)
(* library.  raise_for_status and response.json() follow, and the except   *)
(* clause of line 58 handles the exceptions of class RequestException.     *)
(* req.attempts records every attempt made and how it ended.               *)
(***************************************************************************)
RetryTotal == 3

status_forcelist == {429, 500, 502, 503, 504}

\* Retry.RETRY_AFTER_STATUS_CODES, with respect_retry_after_header = True.
RETRY_AFTER_STATUS_CODES == {413, 429, 503}

Statuses == {200, 403, 404, 413} \cup status_forcelist

ValidBody == "[1]"

Bodies == {ValidBody, "<html>"}

\* How one attempt can end: no response at all, or a response.
AttemptOutcomes ==
    { [kind |-> "connection_failure"] }
      \cup { [kind |-> "response", status |-> 200, retry_after |-> FALSE, body |-> b] :
                b \in Bodies }
      \cup { [kind |-> "response", status |-> st, retry_after |-> ra, body |-> "<html>"] :
                st \in Statuses \ {200}, ra \in BOOLEAN }

\* The exceptions of requests.exceptions that derive from RequestException.
RequestExceptions == {"HTTPError", "ConnectionError", "RetryError", "JSONDecodeError"}

\* A faulty variant: only HTTPError is handled.
CaughtHTTPErrorOnly(exc) == exc = "HTTPError"

\* except requests.exceptions.RequestException (line 58)
Caught(exc) == exc \in RequestExceptions

\* A faulty variant: every error status is sent again.
RetryEveryError(status, has_retry_after, total) == status >= 400

\* Retry.is_retry for a GET: the status is in status_forcelist, or retries
\* are left and the response carries Retry-After with a status that honours it.
is_retry(status, has_retry_after, total) ==
    \/ status \in status_forcelist
    \/ total > 0 /\ has_retry_after /\ status \in RETRY_AFTER_STATUS_CODES

\* response.json(): the decoded body, or None when it is not JSON.
json(text) == IF text = ValidBody THEN << <<1>> >> ELSE None

\* One attempt of the adapter and the decision of Retry.increment: each
\* attempt to be repeated takes one from the total, and the exception is
\* raised when the total falls below zero.
AttemptStep(r, outcome) ==
    LET logged == Append(r.attempts, outcome)
        spent == r.total - 1
    IN  IF outcome.kind = "connection_failure"
        THEN IF spent < 0
             THEN [r EXCEPT !.attempts = logged, !.total = spent, !.state = "raised",
                            !.exc = "ConnectionError"]
             ELSE [r EXCEPT !.attempts = logged, !.total = spent]
        ELSE IF is_retry(outcome.status, outcome.retry_after, r.total)
        THEN IF spent < 0
             THEN [r EXCEPT !.attempts = logged, !.total = spent, !.state = "raised",
                            !.exc = "RetryError"]
             ELSE [r EXCEPT !.attempts = logged, !.total = spent]
        ELSE [r EXCEPT !.attempts = logged, !.state = "response", !.response = <<outcome>>]

\* Lines 56-57: raise_for_status, then response.json().
AfterResponse(r) ==
    IF r.response[1].status >= 400
    THEN [r EXCEPT !.state = "raised", !.exc = "HTTPError"]
    ELSE IF json(r.response[1].body) = None
    THEN [r EXCEPT !.state = "raised", !.exc = "JSONDecodeError"]
    ELSE [r EXCEPT !.state = "returned", !.result = json(r.response[1].body)]

\* Lines 58-62: the handler returns None; another exception leaves the call.
AfterRaise(r) ==
    IF Caught(r.exc)
    THEN [r EXCEPT !.state = "returned", !.result = None]
    ELSE [r EXCEPT !.state = "escaped"]

InitRequest ==
    /\ jsonFile = JsonAbsent
    /\ csvFile = CsvAbsent
    /\ now = 1
    /\ call = NoCall
    /\ pc = "idle"
    /\ data = <<>>
    /\ runs = NoRuns
    /\ pg = NoPage
    /\ NoStatsRunning /\ NoScrapeRunning
    /\ req = [state |-> "sending", total |-> RetryTotal, attempts |-> <<>>,
              response |-> None, exc |-> "", result |-> None]

\* Line 55: one attempt of session.get.
RequestAttempt ==
    /\ req.state = "sending"
    /\ \E outcome \in AttemptOutcomes : req' = AttemptStep(req, outcome)
    /\ UNCHANGED <<jsonFile, csvFile, now, call, pc, data, runs, pg, tfd, cst, rst, scr>>

RequestResponse ==
    /\ req.state = "response"
    /\ req' = AfterResponse(req)
    /\ UNCHANGED <<jsonFile, csvFile, now, call, pc, data, runs, pg, tfd, cst, rst, scr>>

RequestRaised ==
    /\ req.state = "raised"
    /\ req' = AfterRaise(req)
    /\ UNCHANGED <<jsonFile, csvFile, now, call, pc, data, runs, pg, tfd, cst, rst, scr>>

NextRequest ==
    \/ RequestAttempt
    \/ RequestResponse
    \/ RequestRaised

SpecRequest == InitRequest /\ [][NextRequest]_vars

\* How the call ended, read off its last attempt.
LastAttempt == req.attempts[Len(req.attempts)]

Succeeded(outcome) ==
    outcome.kind = "response" /\ outcome.status = 200 /\ outcome.body = "[1]"

(***************************************************************************)
(* C15.  No exception leaves _make_request: however the attempts end, the  *)
(* call returns, and what it returns is the decoded JSON when the last     *)
(* attempt was a 200 response with a JSON body, and None otherwise.        *)
(***************************************************************************)
C15_NeverRaisesPastBoundary ==
    /\ req.state # "escaped"
    /\ req.state = "returned" =>
          IF Succeeded(LastAttempt)
          THEN req.result = << <<1>> >>
          ELSE req.result = None

\* A retryable status answered every attempt until the retries ran out.
C15_Witness ==
    /\ req.state = "returned"
    /\ Len(req.attempts) = 1 + RetryTotal
    /\ \A k \in 1..Len(req.attempts) :
          req.attempts[k].kind = "response" /\ req.attempts[k].status = 503
    /\ req.exc = "RetryError"
    /\ req.result = None

\* A 200 response whose body is not JSON.
C15_WitnessNotJson ==
    /\ req.state = "returned"
    /\ LastAttempt.kind = "response" /\ LastAttempt.status = 200
    /\ LastAttempt.body = "<html>"
    /\ req.exc = "JSONDecodeError"
    /\ req.result = None

\* A 404, and a connection that failed on every attempt.
C15_WitnessNotFound ==
    /\ req.state = "returned"
    /\ req.attempts = << [kind |-> "response", status |-> 404, retry_after |-> FALSE,
                          body |-> "<html>"] >>
    /\ req.result = None

C15_WitnessNoConnection ==
    /\ req.state = "returned"
    /\ \A k \in 1..Len(req.attempts) : req.attempts[k].kind = "connection_failure"
    /\ req.exc = "ConnectionError"
    /\ req.result = None

\* The attempt was one after which the claim allows another.
Listed(outcome) ==
    \/ outcome.kind = "connection_failure"
    \/ outcome.kind = "response" /\ outcome.status \in {429, 500, 502, 503, 504}

Other4xx(outcome) ==
    /\ outcome.kind = "response"
    /\ outcome.status \in 400..499
    /\ outcome.status \notin {429, 500, 502, 503, 504}

PayloadTooLargeRetryAfter(outcome) ==
    outcome.kind = "response" /\ outcome.status = 413 /\ outcome.retry_after

(***************************************************************************)
(* C16, as stated.  An attempt is followed by another only when it ended   *)
(* with status 429, 500, 502, 503 or 504 or with a connection failure; at  *)
(* most 3 attempts follow the first; any other 4xx status and a success    *)
(* end the call at once.                                                   *)
(***************************************************************************)
C16_RetryOnlyOnListed ==
    /\ Len(req.attempts) <= 1 + 3
    /\ \A k \in 1..Len(req.attempts) :
          /\ k < Len(req.attempts) => Listed(req.attempts[k])
          /\ Other4xx(req.attempts[k]) => k = Len(req.attempts) /\ req.state # "sending"
          /\ Succeeded(req.attempts[k]) => k = Len(req.attempts) /\ req.state # "sending"

(***************************************************************************)
(* C16, amended.  An attempt is followed by another only when it ended     *)
(* with status 429, 500, 502, 503 or 504, with a connection failure, or    *)
(* with status 413 and a Retry-After header; at most 3 attempts follow the *)
(* first; any other 4xx response and a success end the call at once, and   *)
(* while retries are left a listed failure is followed by another attempt. *)
(***************************************************************************)
C16_BoundedRetry ==
    /\ Len(req.attempts) <= 1 + 3
    /\ \A k \in 1..Len(req.attempts) :
          /\ k < Len(req.attempts) =>
                Listed(req.attempts[k]) \/ PayloadTooLargeRetryAfter(req.attempts[k])
          /\ Other4xx(req.attempts[k]) /\ ~PayloadTooLargeRetryAfter(req.attempts[k])
                => k = Len(req.attempts) /\ req.state # "sending"
          /\ Succeeded(req.attempts[k]) => k = Len(req.attempts) /\ req.state # "sending"
          /\ Listed(req.attempts[k]) /\ k <= 3 => k < Len(req.attempts) \/ req.state = "sending"

\* Three retries, the first after a 413 with Retry-After, then a success.
C16_Witness ==
    /\ req.state = "returned"
    /\ Len(req.attempts) = 4
    /\ PayloadTooLargeRetryAfter(req.attempts[1])
    /\ req.attempts[2].kind = "connection_failure"
    /\ req.attempts[3].kind = "response" /\ req.attempts[3].status = 429
    /\ Succeeded(req.attempts[4])
    /\ req.result = << <<1>> >>

\* A 403 ends the call at the first attempt.
C16_WitnessForbidden ==
    /\ req.state = "returned"
    /\ Len(req.attempts) = 1
    /\ req.attempts[1].kind = "response" /\ req.attempts[1].status = 403
    /\ req.result = None

(***************************************************************************)
(* C18.  The snapshots of one call of scrape_all_repos all carry one date: *)
(* the day of the call less 7 days, worked out before the repositories are *)
(* listed, whatever the day has become when a snapshot is made.            *)
(***************************************************************************)
C18_OneDatePerRun ==
    scr.pc \in {"enumerate", "loop", "done"} =>
        /\ scr.target_date = Calendar[scr.called - 7]
        /\ \A j \in 1..Len(scr.all_stats) :
              /\ scr.all_stats[j].date = scr.target_date
              /\ scr.all_stats[j].date = scr.all_stats[1].date

\* Three snapshots returned by a call during which midnight passed.
C18_Witness ==
    /\ scr.pc = "done"
    /\ Len(scr.all_stats) = 3
    /\ scr.today # scr.called
    /\ scr.all_stats[3].scraped_at = scr.today
    /\ scr.all_stats[1].scraped_at = scr.called

(***************************************************************************)
(* SpecRun: one call of scrape_all_repos with its listings and requests.   *)
(* get_all_repos and, for each repository, the get_commits of              *)
(* get_repo_stats run the page loop (pg), and every page is asked for by   *)
(* one call of _make_request (req) with its attempts.  The program takes   *)
(* its next step whenever it has one and every attempt comes to an end,    *)
(* with a response or with a failure: this is the fairness of SpecRun.     *)
(***************************************************************************)
\* How an attempt ends in SpecRun: no connection, a page, or a 404.
RunOutcomes ==
    { [kind |-> "connection_failure"],
      [kind |-> "response", status |-> 200, retry_after |-> FALSE, body |-> ValidBody],
      [kind |-> "response", status |-> 404, retry_after |-> FALSE, body |-> "<html>"] }

\* The numbers of commits a repository can have in the day window.
CommitsListed == {0, 120}

\* Line 259 is reached: get_repo_stats starts and get_commits lists the commits.
RepoBegin ==
    /\ scr.pc = "loop"
    /\ scr.i <= Len(scr.repos)
    /\ req = NoRequest
    /\ scr' = [scr EXCEPT !.pc = "repo"]
    /\ \E total \in CommitsListed :
         pg' = [fn |-> "get_commits", total |-> total, page |-> 1,
                items |-> <<>>, log |-> <<>>, done |-> FALSE]
    /\ UNCHANGED <<jsonFile, csvFile, now, call, pc, data, runs, req, tfd, cst, rst>>

\* Lines 73 and 142: _make_request is called for the current page.
PageSend ==
    /\ scr.pc \in {"enumerate", "repo"}
    /\ ~pg.done
    /\ req = NoRequest
    /\ req' = [state |-> "sending", total |-> RetryTotal, attempts |-> <<>>,
               response |-> None, exc |-> "", result |-> None]
    /\ UNCHANGED <<jsonFile, csvFile, now, call, pc, data, runs, pg, tfd, cst, rst, scr>>

\* Line 55: one attempt of the request for the page.
RunAttempt ==
    /\ req # NoRequest
    /\ req.state = "sending"
    /\ \E outcome \in RunOutcomes : req' = AttemptStep(req, outcome)
    /\ UNCHANGED <<jsonFile, csvFile, now, call, pc, data, runs, pg, tfd, cst, rst, scr>>

RunResponse ==
    /\ req # NoRequest
    /\ RequestResponse

RunRaised ==
    /\ req # NoRequest
    /\ RequestRaised

\* Lines 75-84 and 144-152: _make_request has returned and the loop goes on
\* or ends.
PageReceive ==
    /\ scr.pc \in {"enumerate", "repo"}
    /\ ~pg.done
    /\ req # NoRequest
    /\ req.state = "returned"
    /\ pg' = PageIteration(pg, IF req.result = None THEN None
                               ELSE << ServerPage(pg.total, pg.page, per_page) >>)
    /\ req' = NoRequest
    /\ UNCHANGED <<jsonFile, csvFile, now, call, pc, data, runs, tfd, cst, rst, scr>>

\* Lines 259-263: get_repo_stats returns a snapshot or raises.
RepoEnd ==
    /\ scr.pc = "repo"
    /\ pg.done
    /\ \E outcome \in {None} \cup { <<p>> : p \in Profiles } :
         scr' = [ScrapeIteration(scr, outcome) EXCEPT !.pc = "loop"]
    /\ UNCHANGED <<jsonFile, csvFile, now, call, pc, data, runs, pg, req, tfd, cst, rst>>

NextRun ==
    \/ ScrapeStart
    \/ PageSend
    \/ RunAttempt
    \/ RunResponse
    \/ RunRaised
    \/ PageReceive
    \/ ScrapeEnumerated
    \/ RepoBegin
    \/ RepoEnd
    \/ ScrapeReturn

SpecRun == InitScrape /\ [][NextRun]_vars /\ WF_vars(NextRun)

(***************************************************************************)
(* C17.  A call of scrape_all_repos comes to its end after it has taken    *)
(* every enumerated repository, whichever requests fail, and every call of *)
(* _make_request that is under way returns to its caller.                  *)
(***************************************************************************)
C17_RunTerminates ==
    /\ <>(scr.pc = "done" /\ scr.visited = scr.repos /\ req = NoRequest)
    /\ (req # NoRequest) ~> (req = NoRequest)

\* The call has ended: of three repositories the second raised, and the
\* second page of the last commit listing failed after a full first page.
C17_Witness ==
    /\ scr.pc = "done"
    /\ Len(scr.repos) = 3
    /\ scr.visited = scr.repos
    /\ scr.raised = {2}
    /\ pg.fn = "get_commits" /\ pg.done
    /\ Len(pg.log) = 2 /\ pg.log[1].ok /\ ~pg.log[2].ok

(***************************************************************************)
(* C19.  A run of main that collected no snapshot changes neither file and *)
(* ends; the JSON file is written only by a run that collected snapshots,  *)
(* the CSV file only after the JSON save of the same run, and save_to_csv  *)
(* of an empty list leaves the CSV file as it is.                          *)
(***************************************************************************)
C19_EmptyRunWritesNothing ==
    [][ /\ (pc = "scraped" /\ Len(data) = 0) =>
              (jsonFile' = jsonFile /\ csvFile' = csvFile /\ pc' = "idle")
        /\ jsonFile' # jsonFile => (pc = "scraped" /\ Len(data) > 0)
        /\ pc' = "json_saved" => (pc = "scraped" /\ Len(data) > 0)
        /\ csvFile' # csvFile => (pc = "json_saved" /\ Len(data) > 0 /\ data' = data)
        /\ save_to_csv(<<>>, csvFile) = csvFile
      ]_vars

\* A run that collected nothing has just ended, after an earlier run that
\* saved two snapshots: both files still hold them.
C19_Witness ==
    /\ pc = "idle"
    /\ data = <<>>
    /\ now > 1
    /\ jsonFile.exists /\ Len(EntriesOf(jsonFile)) = 2
    /\ csvFile.exists /\ Len(csvFile.rows) = 2

====
